---- MODULE Spec2Model ----
(***************************************************************************)
(* A model of the storefront application's client-side logic:             *)
(*   - the cart kept in device storage under 'cart' and the add-to-cart   *)
(*     handlers of the product screens (SpecAdd),                         *)
(*   - the Cart screen: location check on open, persist and the buttons   *)
(*     (SpecCart); handleCheckout and placeOrder against the backend      *)
(*     tables (SpecCheckout); the checkout button pressed twice           *)
(*     (SpecDoublePress),                                                 *)
(*   - the PickUpTime screen: reserving a slot from several devices       *)
(*     (SpecPickup), browsing the days (SpecSlots),                       *)
(*   - the two module-level toast dispatchers (SpecToast),                *)
(*   - the Login screen's sign-in and auth-state listener (SpecLogin).    *)
(***************************************************************************)
EXTENDS Integers, Sequences, FiniteSets, TLC

\* ------------------------------------------------------------ bounds
\* number of add-to-cart presses explored
MaxPresses == 2
\* largest value of the ProductDetails quantity selector explored
MaxQuantity == 2

\* ------------------------------------------------------------ state
VARIABLES
  \* device storage and the add-to-cart handlers
  storedCart,   \* AsyncStorage key 'cart': None when absent, Some(lines) when set
  quantity,     \* ProductDetails: the quantity selector state
  op,           \* per invocation slot: the handler in flight and its last outcome
  presses,      \* number of add-to-cart presses so far
  expect,       \* per product: sum of the amounts of the adds that completed
  noOverlap,    \* no add wrote while another add was between its read and write
  \* the toast dispatchers
  globalHandler,   \* use-toast.tsx: None, or Some(host) whose handler is registered
  toastQueue,      \* use-toast.tsx: module-level queue
  hookMounted,     \* the useToast instances that are mounted
  hookDelivered,   \* toasts the useToast handlers received, in order
  hookCalls,       \* number of Toast.show calls so far (toast k is the k-th call)
  toastHandler,    \* ToastManager.tsx: whether a handler is registered
  managerQueue,    \* ToastManager.tsx: module-level queue
  managerMounted,  \* whether ToastManager is mounted
  managerDelivered,\* toasts ToastManager's handler received, in order
  managerCalls,    \* number of showToast calls so far
  \* the Cart screen, its storage keys and the backend tables
  cartLocationId,     \* AsyncStorage key 'cartLocationId'
  selectedLocation,   \* AsyncStorage key 'selectedLocation' (the location's id)
  selectedPickupTime, \* AsyncStorage key 'selectedPickupTime'
  cartMounted,        \* whether the Cart screen is mounted
  cart,               \* Cart: the cart state
  selectedPaymentId,  \* Cart: the selectedPaymentId state
  pickupTime,         \* Cart: the pickupTime state
  authUser,           \* supabase.auth: the signed-in user, or None
  payments,           \* backend: payment ids of the user
  products,           \* backend: ids of the rows of table products
  orders,             \* backend: rows of table orders, in insertion order
  order_items,        \* backend: rows of table order_items, in insertion order
  ck,                 \* per checkout slot: the handleCheckout call in flight, its outcome
  checkouts,          \* number of checkout presses so far
  pressPre,           \* per press: what held when 'Proceed to Checkout' was pressed
  addedAt,            \* per product: the locations selected when its stored line was added to
  addedAtExact,       \* addedAt is known for every stored line
  \* the Login screen
  email,         \* Login: whether the email field is filled
  password,      \* Login: whether the password field is filled
  loading,       \* Login: the loading state
  session,       \* supabase.auth: the session's user, or None
  profiles,      \* backend: the role of the user's profiles row, or "missing"
  listener,      \* the onAuthStateChange callback: subscribed, running, its outcome
  route,         \* navigation: the screen at the root of the stack
  loginToast,    \* the last toast the Login screen showed
  \* the PickUpTime screen and the backend's pickup schedules
  schedule,      \* backend: per day of week the available_hours of the location's row
  pk,            \* per client: the PickUpTime screen's state and its confirmSelection call
  confirms,      \* number of confirmSelection presses so far
  reserved       \* per day and slot time: number of confirmSelection calls that succeeded

addVars == <<storedCart, quantity, op, presses, expect, noOverlap>>

addOnlyVars == <<quantity, op, presses, expect, noOverlap>>

toastVars == <<globalHandler, toastQueue, hookMounted, hookDelivered, hookCalls,
               toastHandler, managerQueue, managerMounted, managerDelivered,
               managerCalls>>

cartVars == <<cartLocationId, selectedLocation, selectedPickupTime, cartMounted, cart,
              selectedPaymentId, pickupTime, authUser, payments, products, orders,
              order_items, ck, checkouts, pressPre, addedAt, addedAtExact>>

loginVars == <<email, password, loading, session, profiles, listener, route, loginToast>>

pickupVars == <<schedule, pk, confirms, reserved>>

vars == <<addVars, toastVars, cartVars, loginVars, pickupVars>>

\* ------------------------------------------------------------ values
Products == {"p1", "p2"}

\* An optional value (a storage key that may be absent, a nullable state):
\* <<>> is null, <<x>> is the value x.
None == <<>>
Some(x) == <<x>>

\* product.price of the catalog row
Price(p) == IF p = "p1" THEN 3 ELSE 5

\* ------------------------------------------------------------ pure helpers
\* JSON.parse(stored) of the 'cart' key, [] when the key is absent
ParseCart(stored) == IF stored = None THEN <<>> ELSE stored[1]

\* JSON.stringify(cart) as written by setItem("cart", ...)
StringifyCart(c) == Some(c)

\* Array.prototype.findIndex on item.id; 0 stands for -1
findIndex(c, id) ==
  IF \E k \in 1..Len(c) : c[k].id = id
  THEN CHOOSE k \in 1..Len(c) :
         c[k].id = id /\ \A j \in 1..(k - 1) : c[j].id # id
  ELSE 0

\* total quantity stored for a product over all of its lines
RECURSIVE Qty(_, _)
Qty(c, id) ==
  IF c = <<>> THEN 0
  ELSE (IF Head(c).id = id THEN Head(c).quantity ELSE 0) + Qty(Tail(c), id)

CountLines(c, id) == Cardinality({k \in 1..Len(c) : c[k].id = id})

NoDuplicateLines(c) == \A p \in Products : CountLines(c, p) <= 1

NewLine(p, q) == [id |-> p, quantity |-> q, price |-> Price(p)]

\* ------------------------------------------------------------ add-to-cart handlers
\* ProductCard.handleAddToCart: the cart it writes back
ProductCardPushAlways(c, product) == Append(c, NewLine(product, 1))
ProductCardHandleAddToCart(c, product) ==
  LET existingIndex == findIndex(c, product) IN
  IF existingIndex # 0
  THEN [c EXCEPT ![existingIndex].quantity = @ + 1]
  ELSE Append(c, NewLine(product, 1))

\* HomeScreen.handleAddToCart (the onAddToCart callback of the home screen)
HomeHandleAddToCart(c, p) ==
  LET idx == findIndex(c, p) IN
  IF idx >= 1
  THEN [c EXCEPT ![idx].quantity = @ + 1]
  ELSE Append(c, NewLine(p, 1))

\* ProductDetails.handleAddToCart with the selected quantity
ProductDetailsHandleAddToCart(c, product, amount) ==
  LET idx == findIndex(c, product) IN
  IF idx >= 1
  THEN [c EXCEPT ![idx].quantity = @ + amount]
  ELSE Append(c, NewLine(product, amount))

\* FeatureScreen.handleAddToCart
FeatureOverwritesQuantity(c, product) ==
  LET idx == findIndex(c, product) IN
  IF idx >= 1
  THEN [c EXCEPT ![idx].quantity = 1]
  ELSE Append(c, NewLine(product, 1))
FeatureHandleAddToCart(c, product) ==
  LET idx == findIndex(c, product) IN
  IF idx >= 1
  THEN [c EXCEPT ![idx].quantity = @ + 1]
  ELSE Append(c, NewLine(product, 1))

\* CategoryScreen.handleAddToCart
CategoryHandleAddToCart(c, p) ==
  LET idx == findIndex(c, p) IN
  IF idx >= 1
  THEN [c EXCEPT ![idx].quantity = @ + 1]
  ELSE Append(c, NewLine(p, 1))

\* OrderDetails.reorderItems: orderData.items.forEach over the cart being built
RECURSIVE reorderItems(_, _)
reorderItems(c, items) ==
  IF items = <<>> THEN c
  ELSE LET item == Head(items)
           idx == findIndex(c, item.id)
           next == IF idx >= 1
                   THEN [c EXCEPT ![idx].quantity = @ + item.quantity]
                   ELSE Append(c, item)
       IN reorderItems(next, Tail(items))

\* orderData.items of the orders that can be reordered
ReorderOrders ==
  { << NewLine("p1", 1) >>,
    << NewLine("p2", 2), NewLine("p1", 1) >>,
    << NewLine("p1", 1), NewLine("p1", 1) >> }

\* ------------------------------------------------------------ state: device storage and add-to-cart
\* two handler invocations may be in flight at once
AddProcs == {1, 2}



IdleOp ==
  [pc |-> "idle", kind |-> "none", callback |-> "none", prod |-> "p1", amt |-> 0,
   items |-> <<>>, snap |-> <<>>, base |-> 0, after |-> 0,
   outcome |-> "none", notified |-> FALSE, clean |-> TRUE]

AddInit ==
  /\ storedCart = None
  /\ quantity = 1
  /\ op = [i \in AddProcs |-> IdleOp]
  /\ presses = 0
  /\ expect = [p \in Products |-> 0]
  /\ noOverlap = TRUE

\* whether the handler's catch block (or its success path) shows a notification
ErrorNotified(kind) ==
  CASE kind = "card"     -> FALSE   \* console.error only
    [] kind = "home"     -> FALSE   \* console.error only
    [] kind = "details"  -> TRUE
    [] kind = "feature"  -> TRUE
    [] kind = "category" -> TRUE
    [] kind = "reorder"  -> TRUE

\* the cart a handler writes back, from the cart it read
HandlerResult(o) ==
  CASE o.kind = "card"     -> ProductCardHandleAddToCart(o.snap, o.prod)
    [] o.kind = "home"     -> HomeHandleAddToCart(o.snap, o.prod)
    [] o.kind = "details"  -> ProductDetailsHandleAddToCart(o.snap, o.prod, o.amt)
    [] o.kind = "feature"  -> FeatureHandleAddToCart(o.snap, o.prod)
    [] o.kind = "category" -> CategoryHandleAddToCart(o.snap, o.prod)
    [] o.kind = "reorder"  -> reorderItems(o.snap, o.items)

\* what the invocation means to add: its items, or one line of its amount
AddedLines(o) == IF o.kind = "reorder" THEN o.items ELSE << NewLine(o.prod, o.amt) >>

InFlight(o) == o.pc \in {"write", "cbWrite"}

\* ProductDetails.handleQuantityChange
handleQuantityChange(action) ==
  /\ UNCHANGED <<toastVars, cartVars, loginVars, pickupVars>>
  /\ action = "increase" => quantity < MaxQuantity
  /\ quantity' = IF action = "increase" THEN quantity + 1
                 ELSE IF quantity - 1 > 1 THEN quantity - 1 ELSE 1
  /\ UNCHANGED <<storedCart, op, presses, expect, noOverlap>>

\* A press: the handler starts and its getItem("cart") resolves (or rejects).
AddRead(i, kind, callback, p, items, ok) ==
  /\ UNCHANGED <<toastVars, cartVars, loginVars, pickupVars>>
  /\ op[i].pc = "idle"
  /\ presses < MaxPresses
  /\ presses' = presses + 1
  /\ LET amt == IF kind = "details" THEN quantity ELSE IF kind = "reorder" THEN 0 ELSE 1
         snap == ParseCart(storedCart)
         started == [IdleOp EXCEPT !.kind = kind, !.callback = callback, !.prod = p,
                                   !.amt = amt, !.items = items]
     IN op' = [op EXCEPT ![i] =
                 IF ok
                 THEN [started EXCEPT !.pc = "write", !.snap = snap, !.base = Qty(snap, p)]
                 ELSE [started EXCEPT !.outcome = "error",
                                      !.notified = ErrorNotified(kind)]]
  /\ UNCHANGED <<storedCart, quantity, expect, noOverlap>>

\* the bookkeeping of a successful setItem("cart", ...) by invocation i
WriteCart(i, new) ==
  /\ storedCart' = StringifyCart(new)
  /\ expect' = [p \in Products |-> expect[p] + Qty(AddedLines(op[i]), p)]
  /\ noOverlap' = (noOverlap /\ \A k \in AddProcs \ {i} : ~InFlight(op[k]))

OthersAfterWrite(i, mine) ==
  [k \in AddProcs |->
     IF k = i THEN mine
     ELSE IF op[k].pc # "idle" THEN [op[k] EXCEPT !.clean = FALSE] ELSE op[k]]

\* The handler's continuation: modify the cart it read, setItem, then the toast or
\* the onAddToCart callback.
AddWrite(i, ok) ==
  /\ UNCHANGED <<toastVars, cartVars, loginVars, pickupVars>>
  /\ op[i].pc = "write"
  /\ LET o == op[i]
         new == HandlerResult(o)
     IN IF ok
        THEN /\ WriteCart(i, new)
             /\ op' = OthersAfterWrite(i,
                   IF o.kind = "card" /\ o.callback = "home"
                   THEN [o EXCEPT !.pc = "cbRead", !.snap = <<>>]
                   ELSE [o EXCEPT !.pc = "idle", !.snap = <<>>, !.outcome = "ok",
                                  !.after = Qty(new, o.prod),
                                  !.notified = (o.kind # "card")])
        ELSE /\ op' = [op EXCEPT ![i] = [o EXCEPT !.pc = "idle", !.snap = <<>>,
                                          !.outcome = "error",
                                          !.notified = ErrorNotified(o.kind)]]
             /\ UNCHANGED <<storedCart, expect, noOverlap>>
  /\ UNCHANGED <<quantity, presses>>

\* HomeScreen.handleAddToCart, called by ProductCard after its own write: getItem
HomeRead(i, ok) ==
  /\ UNCHANGED <<toastVars, cartVars, loginVars, pickupVars>>
  /\ op[i].pc = "cbRead"
  /\ op' = [op EXCEPT ![i] =
              IF ok
              THEN [@ EXCEPT !.pc = "cbWrite", !.kind = "home",
                             !.snap = ParseCart(storedCart)]
              ELSE [@ EXCEPT !.pc = "idle", !.kind = "home", !.outcome = "error",
                             !.notified = ErrorNotified("home")]]
  /\ UNCHANGED <<storedCart, quantity, presses, expect, noOverlap>>

\* HomeScreen.handleAddToCart: modify, setItem
HomeWrite(i, ok) ==
  /\ UNCHANGED <<toastVars, cartVars, loginVars, pickupVars>>
  /\ op[i].pc = "cbWrite"
  /\ LET o == op[i]
         new == HandlerResult(o)
     IN IF ok
        THEN /\ WriteCart(i, new)
             /\ op' = OthersAfterWrite(i,
                   [o EXCEPT !.pc = "idle", !.snap = <<>>, !.outcome = "ok",
                             !.after = Qty(new, o.prod), !.notified = FALSE])
        ELSE /\ op' = [op EXCEPT ![i] = [o EXCEPT !.pc = "idle", !.snap = <<>>,
                                          !.outcome = "error",
                                          !.notified = ErrorNotified("home")]]
             /\ UNCHANGED <<storedCart, expect, noOverlap>>
  /\ UNCHANGED <<quantity, presses>>

PressKinds ==
  { <<"card", "none">>, <<"card", "home">>, <<"details", "none">>,
    <<"feature", "none">>, <<"category", "none">> }

PressAdd ==
  \E i \in AddProcs, kc \in PressKinds, p \in Products, ok \in BOOLEAN :
    AddRead(i, kc[1], kc[2], p, <<>>, ok)

PressReorder ==
  \E i \in AddProcs, items \in ReorderOrders, ok \in BOOLEAN :
    AddRead(i, "reorder", "none", "p1", items, ok)

ChangeQuantity == \E action \in {"increase", "decrease"} : handleQuantityChange(action)

FinishAdd == \E i \in AddProcs, ok \in BOOLEAN : AddWrite(i, ok)

CallbackRead == \E i \in AddProcs, ok \in BOOLEAN : HomeRead(i, ok)

CallbackWrite == \E i \in AddProcs, ok \in BOOLEAN : HomeWrite(i, ok)

AddNext ==
  \/ PressAdd
  \/ PressReorder
  \/ ChangeQuantity
  \/ FinishAdd
  \/ CallbackRead
  \/ CallbackWrite


\* ------------------------------------------------------------ toast dispatchers
\* number of Toast.show / showToast calls explored per dispatcher
MaxToasts == 3

\* screens that call useToast() and may be mounted at once (a navigation stack)
ToastHosts == {"Cart", "Login"}



ToastInit ==
  /\ globalHandler = None
  /\ toastQueue = <<>>
  /\ hookMounted = {}
  /\ hookDelivered = <<>>
  /\ hookCalls = 0
  /\ toastHandler = FALSE
  /\ managerQueue = <<>>
  /\ managerMounted = FALSE
  /\ managerDelivered = <<>>
  /\ managerCalls = 0

\* Toast.show(opts)
ToastShow ==
  /\ UNCHANGED <<addVars, cartVars, loginVars, pickupVars>>
  /\ hookCalls < MaxToasts
  /\ hookCalls' = hookCalls + 1
  /\ IF globalHandler # None
     THEN /\ hookDelivered' = Append(hookDelivered, hookCalls + 1)
          /\ UNCHANGED toastQueue
     ELSE /\ toastQueue' = Append(toastQueue, hookCalls + 1)
          /\ UNCHANGED hookDelivered
  /\ UNCHANGED <<globalHandler, hookMounted, toastHandler, managerQueue,
                 managerMounted, managerDelivered, managerCalls>>

\* useToast's effect body: register the handler, flush the queue, empty it
UseToastEffect(h) ==
  /\ globalHandler' = Some(h)
  /\ hookDelivered' = hookDelivered \o toastQueue
  /\ toastQueue' = <<>>

\* a screen calling useToast() mounts: the effect runs
UseToastMount(h) ==
  /\ UNCHANGED <<addVars, cartVars, loginVars, pickupVars>>
  /\ h \notin hookMounted
  /\ hookMounted' = hookMounted \cup {h}
  /\ UseToastEffect(h)
  /\ UNCHANGED <<hookCalls, toastHandler, managerQueue, managerMounted,
                 managerDelivered, managerCalls>>

\* the screen re-renders: handler is a new function, so the effect's cleanup
\* (globalHandler = null) runs and then the effect again
UseToastRerender(h) ==
  /\ UNCHANGED <<addVars, cartVars, loginVars, pickupVars>>
  /\ h \in hookMounted
  /\ UseToastEffect(h)
  /\ UNCHANGED <<hookMounted, hookCalls, toastHandler, managerQueue, managerMounted,
                 managerDelivered, managerCalls>>

\* the screen unmounts: the effect's cleanup sets globalHandler = null
UseToastUnmount(h) ==
  /\ UNCHANGED <<addVars, cartVars, loginVars, pickupVars>>
  /\ h \in hookMounted
  /\ hookMounted' = hookMounted \ {h}
  /\ globalHandler' = None
  /\ UNCHANGED <<toastQueue, hookDelivered, hookCalls, toastHandler, managerQueue,
                 managerMounted, managerDelivered, managerCalls>>

\* showToast(opts)
showToast ==
  /\ UNCHANGED <<addVars, cartVars, loginVars, pickupVars>>
  /\ managerCalls < MaxToasts
  /\ managerCalls' = managerCalls + 1
  /\ IF toastHandler
     THEN /\ managerDelivered' = Append(managerDelivered, managerCalls + 1)
          /\ UNCHANGED managerQueue
     ELSE /\ managerQueue' = Append(managerQueue, managerCalls + 1)
          /\ UNCHANGED managerDelivered
  /\ UNCHANGED <<globalHandler, toastQueue, hookMounted, hookDelivered, hookCalls,
                 toastHandler, managerMounted>>

\* ToastManager mounts: the render registers the handler, the effect drains the queue
ToastManagerMount ==
  /\ UNCHANGED <<addVars, cartVars, loginVars, pickupVars>>
  /\ ~managerMounted
  /\ managerMounted' = TRUE
  /\ toastHandler' = TRUE
  /\ managerDelivered' = managerDelivered \o managerQueue
  /\ managerQueue' = <<>>
  /\ UNCHANGED <<globalHandler, toastQueue, hookMounted, hookDelivered, hookCalls,
                 managerCalls>>

\* ToastManager re-renders (every handled toast sets its state): the render registers
\* the new handler, then the previous effect's cleanup sets toastHandler = null, then
\* the effect drains the queue through the new handler without registering it
ToastManagerRerender ==
  /\ UNCHANGED <<addVars, cartVars, loginVars, pickupVars>>
  /\ managerMounted
  /\ toastHandler' = FALSE
  /\ managerDelivered' = managerDelivered \o managerQueue
  /\ managerQueue' = <<>>
  /\ UNCHANGED <<globalHandler, toastQueue, hookMounted, hookDelivered, hookCalls,
                 managerMounted, managerCalls>>

\* ToastManager unmounts: cleanup
ToastManagerUnmount ==
  /\ UNCHANGED <<addVars, cartVars, loginVars, pickupVars>>
  /\ managerMounted
  /\ managerMounted' = FALSE
  /\ toastHandler' = FALSE
  /\ UNCHANGED <<globalHandler, toastQueue, hookMounted, hookDelivered, hookCalls,
                 managerQueue, managerDelivered, managerCalls>>

HookMounts == \E h \in ToastHosts : UseToastMount(h)

HookRerenders == \E h \in ToastHosts : UseToastRerender(h)

HookUnmounts == \E h \in ToastHosts : UseToastUnmount(h)

ToastNext ==
  \/ ToastShow
  \/ HookMounts
  \/ HookRerenders
  \/ HookUnmounts
  \/ showToast
  \/ ToastManagerMount
  \/ ToastManagerRerender
  \/ ToastManagerUnmount

\* ------------------------------------------------------------ the Cart screen and the backend
\* number of presses of 'Proceed to Checkout' explored; the other screens are used
\* until the last of them
MaxCheckouts == 1

\* largest quantity of a cart line explored on the Cart screen
MaxCartQuantity == 2

\* number of further presses explored while a handleCheckout call is in flight
MaxRepeatedPresses == 1

\* two handleCheckout calls may be in flight at once
CheckoutProcs == {1, 2}

\* ids of table locations, and the id handleUseCurrentLocation stores
Locations == {"locA", "current"}

storeVars == <<storedCart, cartLocationId>>

envVars == <<selectedLocation, selectedPickupTime, authUser, payments, products>>

screenVars == <<cartMounted, cart, selectedPaymentId, pickupTime>>

backendVars == <<orders, order_items>>

ckVars == <<ck, checkouts, pressPre>>

ghostVars == <<addedAt, addedAtExact>>

notCartVars == <<addOnlyVars, toastVars, loginVars, pickupVars>>

IdleCheckout ==
  [pc |-> "idle", cart |-> <<>>, payment |-> None, pickup |-> None, user |-> None,
   loc |-> None, orderId |-> 0, barcode |-> 0, result |-> "none", toast |-> "none"]

\* what a press found: the screen's cart, payment and pickup time, the signed-in user
\* and the stored location
NoPre == [cart |-> <<>>, user |-> None, location |-> None, payment |-> None,
          pickup |-> None, repeatOf |-> 0]

CartInit ==
  /\ cartLocationId = None
  /\ selectedLocation = None
  /\ selectedPickupTime = None
  /\ cartMounted = FALSE
  /\ cart = <<>>
  /\ selectedPaymentId = None
  /\ pickupTime = None
  /\ authUser = None
  /\ payments = {}
  /\ products = Products
  /\ orders = <<>>
  /\ order_items = <<>>
  /\ ck = [i \in CheckoutProcs |-> IdleCheckout]
  /\ checkouts = 0
  /\ pressPre = [b \in 1..(MaxCheckouts + MaxRepeatedPresses) |-> NoPre]
  /\ addedAt = [p \in Products |-> {}]
  /\ addedAtExact = TRUE

\* The user is on the Cart screen while a checkout runs: the actions that need another
\* screen (selecting a location, signing in or out, adding products, opening or leaving
\* the Cart screen) happen between checkouts.
NoCheckoutRunning ==
  /\ \A i \in CheckoutProcs : ck[i].pc = "idle"
  /\ checkouts < MaxCheckouts

\* --- other screens and the backend
\* SelectLocation.handleConfirmLocation / handleUseCurrentLocation
ConfirmLocation(l) ==
  /\ NoCheckoutRunning
  /\ selectedLocation # Some(l)
  /\ selectedLocation' = Some(l)
  /\ UNCHANGED <<selectedPickupTime, authUser, payments, products>>
  /\ UNCHANGED <<storeVars, screenVars, backendVars, ckVars, ghostVars, notCartVars>>

\* PickUpTime.confirmSelection stores the chosen time
ConfirmPickupTime ==
  /\ NoCheckoutRunning
  /\ selectedPickupTime = None
  /\ selectedPickupTime' = Some("t1")
  /\ UNCHANGED <<selectedLocation, authUser, payments, products>>
  /\ UNCHANGED <<storeVars, screenVars, backendVars, ckVars, ghostVars, notCartVars>>

\* a sign-in or a sign-out (Login, Account)
SignIn ==
  /\ NoCheckoutRunning
  /\ authUser = None
  /\ authUser' = Some("u1")
  /\ UNCHANGED <<selectedLocation, selectedPickupTime, payments, products>>
  /\ UNCHANGED <<storeVars, screenVars, backendVars, ckVars, ghostVars, notCartVars>>

SignOut ==
  /\ NoCheckoutRunning
  /\ authUser # None
  /\ authUser' = None
  /\ UNCHANGED <<selectedLocation, selectedPickupTime, payments, products>>
  /\ UNCHANGED <<storeVars, screenVars, backendVars, ckVars, ghostVars, notCartVars>>

\* PaymentSettings: the signed-in user saves a payment method
AddPayment ==
  /\ NoCheckoutRunning
  /\ authUser # None
  /\ payments = {}
  /\ payments' = {"pay1"}
  /\ UNCHANGED <<selectedLocation, selectedPickupTime, authUser, products>>
  /\ UNCHANGED <<storeVars, screenVars, backendVars, ckVars, ghostVars, notCartVars>>

\* a row of table products is deleted by the store, at any time
ProductRemoved(p) ==
  /\ p \in products
  /\ products' = products \ {p}
  /\ UNCHANGED <<selectedLocation, selectedPickupTime, authUser, payments>>
  /\ UNCHANGED <<storeVars, screenVars, backendVars, ckVars, ghostVars, notCartVars>>

\* An add-to-cart on a product screen, run to completion (FeatureScreen's handler;
\* the handlers write 'cart' only, never 'cartLocationId').
ScreenAddToCart(p) ==
  /\ NoCheckoutRunning
  /\ Qty(ParseCart(storedCart), p) < MaxCartQuantity
  /\ storedCart' = StringifyCart(FeatureHandleAddToCart(ParseCart(storedCart), p))
  /\ addedAt' = [addedAt EXCEPT ![p] = @ \cup {selectedLocation}]
  /\ UNCHANGED <<cartLocationId, addedAtExact>>
  /\ UNCHANGED <<envVars, screenVars, backendVars, ckVars, notCartVars>>

\* --- the Cart screen
\* effect 1's condition: the saved cart is cleared
LocationChanged(savedCartArray, savedCartLocId, currentLocId) ==
  /\ Len(savedCartArray) > 0
  /\ savedCartLocId # None
  /\ savedCartLocId # currentLocId

\* effect 5: the default payment method, the first one, or null
DefaultPayment ==
  IF authUser # None /\ payments # {}
  THEN Some(CHOOSE x \in payments : TRUE)
  ELSE None

\* The Cart screen mounts: effect 1 (clear the cart if the location changed),
\* effect 2 (load the cart), effect 4 (pickup time), effect 5 (payments).
\* Effects 1 and 2 run unordered: when effect 1 clears, the cart state ends as
\* effect 1's [] or as the saved cart effect 2 read before the removal.
CartOpen ==
  /\ NoCheckoutRunning
  /\ ~cartMounted
  /\ cartMounted' = TRUE
  /\ LET saved == ParseCart(storedCart)
         clear == LocationChanged(saved, cartLocationId, selectedLocation)
     IN /\ IF clear
           THEN /\ storedCart' = None
                /\ \E c \in {<<>>, saved} : cart' = c
                /\ addedAt' = [p \in Products |-> {}]
                /\ addedAtExact' = TRUE
           ELSE /\ cart' = saved
                /\ UNCHANGED <<storedCart, addedAt, addedAtExact>>
  /\ pickupTime' = selectedPickupTime
  /\ selectedPaymentId' = DefaultPayment
  /\ UNCHANGED <<cartLocationId, envVars, backendVars, ckVars, notCartVars>>

\* the Cart screen unmounts: its state is gone
CartClose ==
  /\ NoCheckoutRunning
  /\ cartMounted
  /\ cartMounted' = FALSE
  /\ cart' = <<>>
  /\ selectedPaymentId' = None
  /\ pickupTime' = None
  /\ UNCHANGED <<storeVars, envVars, backendVars, ckVars, ghostVars, notCartVars>>

\* Cart.persist(newCart); touched is the product whose line gained a unit, if any
persist(newCart, touched) ==
  /\ cart' = newCart
  /\ storedCart' = StringifyCart(newCart)
  /\ cartLocationId' = IF Len(newCart) > 0 /\ selectedLocation # None
                       THEN selectedLocation
                       ELSE None
  /\ addedAt' = [p \in Products |->
                   IF CountLines(newCart, p) = 0 THEN {}
                   ELSE IF Some(p) = touched THEN addedAt[p] \cup {selectedLocation}
                   ELSE addedAt[p]]
  /\ addedAtExact' = IF Len(newCart) = 0 THEN TRUE
                     ELSE /\ addedAtExact
                          /\ \A p \in Products :
                               CountLines(newCart, p) > 0 => addedAt[p] # {}

MapLines(c, id, delta) ==
  [k \in 1..Len(c) |->
     IF c[k].id = id THEN [c[k] EXCEPT !.quantity = @ + delta] ELSE c[k]]

RECURSIVE FilterOut(_, _)
FilterOut(c, id) ==
  IF c = <<>> THEN <<>>
  ELSE IF Head(c).id = id THEN FilterOut(Tail(c), id)
       ELSE <<Head(c)>> \o FilterOut(Tail(c), id)

\* Cart.handleIncrement
handleIncrement(id) ==
  /\ cartMounted
  /\ findIndex(cart, id) # 0
  /\ Qty(cart, id) < MaxCartQuantity
  /\ persist(MapLines(cart, id, 1), Some(id))
  /\ UNCHANGED <<cartMounted, selectedPaymentId, pickupTime>>
  /\ UNCHANGED <<envVars, backendVars, ckVars, notCartVars>>

\* Cart.handleDecrement: a line of quantity 1 stays as it is
handleDecrement(id) ==
  /\ cartMounted
  /\ findIndex(cart, id) # 0
  /\ persist([k \in 1..Len(cart) |->
                IF cart[k].id = id /\ cart[k].quantity > 1
                THEN [cart[k] EXCEPT !.quantity = @ - 1]
                ELSE cart[k]], None)
  /\ UNCHANGED <<cartMounted, selectedPaymentId, pickupTime>>
  /\ UNCHANGED <<envVars, backendVars, ckVars, notCartVars>>

\* Cart.handleDelete
handleDelete(id) ==
  /\ cartMounted
  /\ findIndex(cart, id) # 0
  /\ persist(FilterOut(cart, id), None)
  /\ UNCHANGED <<cartMounted, selectedPaymentId, pickupTime>>
  /\ UNCHANGED <<envVars, backendVars, ckVars, notCartVars>>

\* Cart.handleClearCart
handleClearCart ==
  /\ cartMounted
  /\ Len(cart) > 0
  /\ cart' = <<>>
  /\ storedCart' = None
  /\ cartLocationId' = None
  /\ addedAt' = [p \in Products |-> {}]
  /\ addedAtExact' = TRUE
  /\ UNCHANGED <<cartMounted, selectedPaymentId, pickupTime>>
  /\ UNCHANGED <<envVars, backendVars, ckVars, notCartVars>>

\* --- checkout
\* handleCheckout's first check
CartIsEmpty(c) == Len(c) = 0

\* placeOrder's first check
PaymentNeverMissing(paymentId) == FALSE
PaymentMissing(paymentId) == paymentId = None

\* the amounts of placeOrder, in cents (prices are whole dollars: 8% tax is exact)
SubtotalOf(c) == Qty(c, "p1") * Price("p1") + Qty(c, "p2") * Price("p2")

TotalCents(c) == SubtotalOf(c) * 100 + SubtotalOf(c) * 8 + 200

\* the row placeOrder inserts into orders; the backend assigns the id
OrderRow(id, o) ==
  [id |-> id, user_id |-> o.user, location_id |-> o.loc,
   total_amount |-> TotalCents(o.cart), status |-> "Pending", barcode |-> o.barcode,
   payment_id |-> o.payment, pickup_time |-> o.pickup]

\* the rows placeOrder inserts into order_items
OrderItemsWithoutLast(c, orderId) ==
  [j \in 1..(Len(c) - 1) |->
     [order_id |-> orderId, product_id |-> c[j].id, quantity |-> c[j].quantity,
      unit_price |-> c[j].price]]
OrderItemsOf(c, orderId) ==
  [j \in 1..Len(c) |->
     [order_id |-> orderId, product_id |-> c[j].id, quantity |-> c[j].quantity,
      unit_price |-> c[j].price]]

\* a handleCheckout call ends before any backend write
EndCheckout(i, result, toast) ==
  ck' = [ck EXCEPT ![i] = [@ EXCEPT !.pc = "idle", !.result = result, !.toast = toast]]

\* placeOrder returns after its order row was inserted: a toast, nothing else
FailAfterInsertDeletesOrder(i, result) ==
  /\ EndCheckout(i, result, "error")
  /\ orders' = SubSeq(orders, 1, Len(orders) - 1)
  /\ UNCHANGED <<order_items, cart, storedCart, cartLocationId, addedAt, addedAtExact>>
FailAfterInsert(i, result) ==
  /\ EndCheckout(i, result, "error")
  /\ UNCHANGED <<orders, order_items, cart, storedCart, cartLocationId, addedAt,
                 addedAtExact>>

\* 'Proceed to Checkout' is pressed: handleCheckout starts with this render's cart,
\* selectedPaymentId and pickupTime, checks the cart and asks for the user. The button
\* is drawn for a non-empty cart; the handler is called with any cart, as its first
\* check provides for.
StartCheckout(i, repeatOf) ==
  /\ cartMounted
  /\ ck[i].pc = "idle"
  /\ checkouts' = checkouts + 1
  /\ pressPre' = [pressPre EXCEPT ![checkouts + 1] =
                    [cart |-> cart, user |-> authUser, location |-> selectedLocation,
                     payment |-> selectedPaymentId, pickup |-> pickupTime,
                     repeatOf |-> repeatOf]]
  /\ LET started == [IdleCheckout EXCEPT !.barcode = checkouts + 1, !.cart = cart,
                                         !.payment = selectedPaymentId,
                                         !.pickup = pickupTime]
     IN ck' = [ck EXCEPT ![i] =
                 IF CartIsEmpty(cart)
                 THEN [started EXCEPT !.result = "empty", !.toast = "error"]
                 ELSE [started EXCEPT !.pc = "auth"]]
  /\ UNCHANGED <<storeVars, envVars, screenVars, backendVars, ghostVars, notCartVars>>

\* a press while no call is in flight
handleCheckout(i) ==
  /\ checkouts < MaxCheckouts
  /\ StartCheckout(i, 0)

\* The button is neither disabled nor hidden while a call is in flight: it is pressed
\* again, on the cart the call in flight was started with (repeatOf is that press).
handleCheckoutAgain(i) ==
  /\ checkouts < MaxCheckouts + MaxRepeatedPresses
  /\ \E j \in CheckoutProcs \ {i} :
       /\ ck[j].pc # "idle"
       /\ ck[j].cart = cart
       /\ StartCheckout(i, ck[j].barcode)

\* handleCheckout: supabase.auth.getUser() answers (ok) or fails
CheckoutGetUser(i, ok) ==
  /\ ck[i].pc = "auth"
  /\ IF ~ok \/ authUser = None
     THEN EndCheckout(i, "noauth", "error")
     ELSE ck' = [ck EXCEPT ![i].pc = "loc"]
  /\ UNCHANGED <<checkouts, pressPre>>
  /\ UNCHANGED <<storeVars, envVars, screenVars, backendVars, ghostVars, notCartVars>>

\* handleCheckout: getItem("selectedLocation"), then placeOrder's payment check
CheckoutGetLocation(i) ==
  /\ ck[i].pc = "loc"
  /\ IF selectedLocation = None
     THEN EndCheckout(i, "noloc", "error")
     ELSE IF PaymentMissing(ck[i].payment)
          THEN EndCheckout(i, "nopay", "error")
          ELSE ck' = [ck EXCEPT ![i].pc = "reads"]
  /\ UNCHANGED <<checkouts, pressPre>>
  /\ UNCHANGED <<storeVars, envVars, screenVars, backendVars, ghostVars, notCartVars>>

\* placeOrder: getUser() again, unchecked, and getItem("selectedLocation"); with no
\* user, user!.id throws and the call ends without a toast
PlaceOrderReads(i, ok) ==
  /\ ck[i].pc = "reads"
  /\ IF ~ok \/ authUser = None
     THEN EndCheckout(i, "crash", "none")
     ELSE ck' = [ck EXCEPT ![i] = [@ EXCEPT !.pc = "insert", !.user = authUser,
                                             !.loc = selectedLocation]]
  /\ UNCHANGED <<checkouts, pressPre>>
  /\ UNCHANGED <<storeVars, envVars, screenVars, backendVars, ghostVars, notCartVars>>

\* placeOrder: insert into orders, select id
PlaceOrderInsertOrder(i, ok) ==
  /\ ck[i].pc = "insert"
  /\ IF ok
     THEN /\ orders' = Append(orders, OrderRow(Len(orders) + 1, ck[i]))
          /\ ck' = [ck EXCEPT ![i] = [@ EXCEPT !.pc = "verify",
                                               !.orderId = Len(orders) + 1]]
     ELSE /\ EndCheckout(i, "orderfail", "error")
          /\ UNCHANGED orders
  /\ UNCHANGED <<order_items, checkouts, pressPre>>
  /\ UNCHANGED <<storeVars, envVars, screenVars, ghostVars, notCartVars>>

\* placeOrder: select id from products where id in cartIds (a failed query gives no
\* rows), compared with cart.length
PlaceOrderVerify(i, ok) ==
  /\ ck[i].pc = "verify"
  /\ LET validProducts == IF ok
                          THEN {p \in products : CountLines(ck[i].cart, p) > 0}
                          ELSE {}
     IN IF Cardinality(validProducts) # Len(ck[i].cart)
        THEN FailAfterInsert(i, "unavailable")
        ELSE /\ ck' = [ck EXCEPT ![i].pc = "items"]
             /\ UNCHANGED <<orders, order_items, cart, storedCart, cartLocationId,
                            addedAt, addedAtExact>>
  /\ UNCHANGED <<checkouts, pressPre, cartMounted, selectedPaymentId, pickupTime>>
  /\ UNCHANGED <<envVars, notCartVars>>

\* placeOrder: insert into order_items
PlaceOrderInsertItems(i, ok) ==
  /\ ck[i].pc = "items"
  /\ IF ok
     THEN /\ order_items' = order_items \o OrderItemsOf(ck[i].cart, ck[i].orderId)
          /\ ck' = [ck EXCEPT ![i].pc = "clear"]
          /\ UNCHANGED <<orders, cart, storedCart, cartLocationId, addedAt,
                         addedAtExact>>
     ELSE FailAfterInsert(i, "itemsfail")
  /\ UNCHANGED <<checkouts, pressPre, cartMounted, selectedPaymentId, pickupTime>>
  /\ UNCHANGED <<envVars, notCartVars>>

\* placeOrder's success path: setCart([]), remove 'cart' and 'cartLocationId', toast
PlaceOrderFinish(i) ==
  /\ ck[i].pc = "clear"
  /\ cart' = <<>>
  /\ storedCart' = None
  /\ cartLocationId' = None
  /\ addedAt' = [p \in Products |-> {}]
  /\ addedAtExact' = TRUE
  /\ ck' = [ck EXCEPT ![i] =
              [@ EXCEPT !.pc = "idle", !.result = "ok", !.toast = "success"]]
  /\ UNCHANGED <<checkouts, pressPre, cartMounted, selectedPaymentId, pickupTime>>
  /\ UNCHANGED <<envVars, backendVars, notCartVars>>

\* the Cart screen with its storage keys: locations, adds, the screen's buttons
CartNext ==
  \/ \E l \in Locations : ConfirmLocation(l)
  \/ \E p \in Products : ScreenAddToCart(p)
  \/ CartOpen
  \/ CartClose
  \/ \E id \in Products : handleIncrement(id)
  \/ \E id \in Products : handleDecrement(id)
  \/ \E id \in Products : handleDelete(id)
  \/ handleClearCart

\* a checkout: the cart is filled before the Cart screen is opened, one location
\* is selected, one product may leave the catalog, one handleCheckout call at a time
CheckoutNext ==
  \/ \E l \in {"locA"} : ConfirmLocation(l)
  \/ ConfirmPickupTime
  \/ SignIn
  \/ SignOut
  \/ AddPayment
  \/ \E p \in {"p2"} : ProductRemoved(p)
  \/ \E p \in Products : ~cartMounted /\ ScreenAddToCart(p)
  \/ CartOpen
  \/ CartClose
  \/ \E i \in {1} : handleCheckout(i)
  \/ \E i \in CheckoutProcs, ok \in BOOLEAN : CheckoutGetUser(i, ok)
  \/ \E i \in CheckoutProcs : CheckoutGetLocation(i)
  \/ \E i \in CheckoutProcs, ok \in BOOLEAN : PlaceOrderReads(i, ok)
  \/ \E i \in CheckoutProcs, ok \in BOOLEAN : PlaceOrderInsertOrder(i, ok)
  \/ \E i \in CheckoutProcs, ok \in BOOLEAN : PlaceOrderVerify(i, ok)
  \/ \E i \in CheckoutProcs, ok \in BOOLEAN : PlaceOrderInsertItems(i, ok)
  \/ \E i \in CheckoutProcs : PlaceOrderFinish(i)

\* 'Proceed to Checkout' pressed twice: a cart is filled, the Cart screen opened, the
\* button pressed and pressed again while the first call is in flight
DoublePressNext ==
  \/ \E l \in {"locA"} : ConfirmLocation(l)
  \/ SignIn
  \/ AddPayment
  \/ \E p \in Products : ~cartMounted /\ ScreenAddToCart(p)
  \/ CartOpen
  \/ \E i \in {1} : handleCheckout(i)
  \/ \E i \in {2} : handleCheckoutAgain(i)
  \/ \E i \in CheckoutProcs, ok \in BOOLEAN : CheckoutGetUser(i, ok)
  \/ \E i \in CheckoutProcs : CheckoutGetLocation(i)
  \/ \E i \in CheckoutProcs, ok \in BOOLEAN : PlaceOrderReads(i, ok)
  \/ \E i \in CheckoutProcs, ok \in BOOLEAN : PlaceOrderInsertOrder(i, ok)
  \/ \E i \in CheckoutProcs, ok \in BOOLEAN : PlaceOrderVerify(i, ok)
  \/ \E i \in CheckoutProcs, ok \in BOOLEAN : PlaceOrderInsertItems(i, ok)
  \/ \E i \in CheckoutProcs : PlaceOrderFinish(i)

\* ------------------------------------------------------------ the Login screen
\* number of sign-ins explored
MaxSignIns == 2

\* values of profiles.role; "missing" is a user without a profiles row
Roles == {"employee", "customer", "admin"}

notLoginVars == <<addVars, toastVars, cartVars, pickupVars>>

LoginInit ==
  /\ email = FALSE
  /\ password = FALSE
  /\ loading = FALSE
  /\ session = None
  /\ profiles = "missing"
  /\ listener = [pc |-> "idle", role |-> "none", signIns |-> 0]
  /\ route = "Login"
  /\ loginToast = "none"

\* the destination the listener computes from a profile
Dest(role) == IF role = "employee" THEN "EmployeeView" ELSE "SelectLocation"

\* the email field is typed into or emptied
SetEmail ==
  /\ route = "Login" /\ ~loading
  /\ email' = ~email
  /\ UNCHANGED <<password, loading, session, profiles, listener, route, loginToast>>
  /\ UNCHANGED notLoginVars

\* the password field is typed into or emptied
SetPassword ==
  /\ route = "Login" /\ ~loading
  /\ password' = ~password
  /\ UNCHANGED <<email, loading, session, profiles, listener, route, loginToast>>
  /\ UNCHANGED notLoginVars

\* the backend's profiles row of the user is created or its role changed
ProfileChanges(r) ==
  /\ profiles # r
  /\ profiles' = r
  /\ UNCHANGED <<email, password, loading, session, listener, route, loginToast>>
  /\ UNCHANGED notLoginVars

\* Login.handleSubmit up to its request
handleSubmit ==
  /\ route = "Login" /\ ~loading /\ session = None
  /\ listener.signIns < MaxSignIns
  /\ IF ~email \/ ~password
     THEN /\ loginToast' = "Please fill in all fields"
          /\ UNCHANGED loading
     ELSE /\ loading' = TRUE
          /\ loginToast' = "none"
  /\ UNCHANGED <<email, password, session, profiles, listener, route>>
  /\ UNCHANGED notLoginVars

\* signInWithPassword answers: a session, whose SIGNED_IN event starts the listener,
\* or an error, which handleSubmit shows
SignInAnswers(ok) ==
  /\ loading
  /\ loading' = FALSE
  /\ IF ok
     THEN /\ session' = Some("u1")
          /\ listener' = [pc |-> "fetch", role |-> "none",
                          signIns |-> listener.signIns + 1]
          /\ UNCHANGED loginToast
     ELSE /\ loginToast' = "Failed to log in"
          /\ UNCHANGED <<session, listener>>
  /\ UNCHANGED <<email, password, profiles, route>>
  /\ UNCHANGED notLoginVars

\* the listener's profiles query answers; it navigates only on a row without error
ListenerProfileAnswers(ok) ==
  /\ listener.pc = "fetch"
  /\ IF ok /\ profiles # "missing"
     THEN /\ route' = Dest(profiles)
          /\ listener' = [listener EXCEPT !.pc = "done", !.role = profiles]
     ELSE /\ listener' = [listener EXCEPT !.pc = "done"]
          /\ UNCHANGED route
  /\ UNCHANGED <<email, password, loading, session, profiles, loginToast>>
  /\ UNCHANGED notLoginVars

\* Account's Sign Out: signOut(), then navigate("Login")
AccountSignOut ==
  /\ session # None /\ listener.pc = "done" /\ route # "Login"
  /\ session' = None
  /\ route' = "Login"
  /\ listener' = [listener EXCEPT !.pc = "idle", !.role = "none"]
  /\ email' = FALSE
  /\ password' = FALSE
  /\ loginToast' = "none"
  /\ UNCHANGED <<loading, profiles>>
  /\ UNCHANGED notLoginVars

LoginNext ==
  \/ SetEmail
  \/ SetPassword
  \/ \E r \in Roles \cup {"missing"} : ProfileChanges(r)
  \/ handleSubmit
  \/ \E ok \in BOOLEAN : SignInAnswers(ok)
  \/ \E ok \in BOOLEAN : ListenerProfileAnswers(ok)
  \/ AccountSignOut

\* ------------------------------------------------------------ the PickUpTime screen
\* largest finite capacity a slot starts with
MaxCapacity == 1

\* number of confirmSelection presses explored
MaxConfirms == 2

\* devices showing the PickUpTime screen for the same location
PickupClients == {1, 2}

\* values of day_of_week in dayOptions; dayOptions[0] is day 1
Days == {1, 2}

Times == {"09:00", "10:00", "11:00"}

\* a Slot of available_hours; capacity None is null (unlimited)
Slot(time, capacity) == [time |-> time, capacity |-> capacity]

\* the rows of location_pickup_schedules of the location, as they are at the start
InitialSchedule ==
  [d \in Days |->
     IF d = 1
     THEN << Slot("09:00", Some(MaxCapacity)), Slot("10:00", None),
             Slot("11:00", Some(MaxCapacity)) >>
     ELSE << Slot("11:00", Some(0)), Slot("09:00", Some(MaxCapacity)) >>]

\* toM of the fetch effect: "HH:MM" in minutes
toM(t) == CASE t = "09:00" -> 9 * 60
            [] t = "10:00" -> 10 * 60
            [] t = "11:00" -> 11 * 60

\* raw.sort((a, b) => toM(a.time) - toM(b.time)): a stable sort by time
RECURSIVE InsertSlot(_, _)
InsertSlot(sorted, slot) ==
  IF sorted = <<>> THEN << slot >>
  ELSE IF toM(slot.time) < toM(Head(sorted).time)
       THEN << slot >> \o sorted
       ELSE << Head(sorted) >> \o InsertSlot(Tail(sorted), slot)

RECURSIVE SortSlots(_)
SortSlots(raw) ==
  IF raw = <<>> THEN <<>>
  ELSE InsertSlot(SortSlots(SubSeq(raw, 1, Len(raw) - 1)), raw[Len(raw)])

\* confirmSelection's updated schedule: sched.available_hours.map(...)
UpdatedHoursLoweringAll(hours, selectedSlot) ==
  [k \in 1..Len(hours) |->
     IF hours[k].capacity # None /\ hours[k].capacity[1] > 0
     THEN Slot(hours[k].time, Some(hours[k].capacity[1] - 1))
     ELSE hours[k]]
UpdatedHours(hours, selectedSlot) ==
  [k \in 1..Len(hours) |->
     IF /\ hours[k].time = selectedSlot.time
        /\ hours[k].capacity # None
        /\ hours[k].capacity[1] > 0
     THEN Slot(hours[k].time, Some(hours[k].capacity[1] - 1))
     ELSE hours[k]]

\* the screen after its first render: dayOptions[0] selected, its fetch in flight
FreshPickup ==
  [selectedDate |-> 1, availableSlots |-> <<>>, selectedSlot |-> None,
   pending |-> {1}, failed |-> FALSE, pc |-> "idle", slot |-> None, date |-> 1,
   sched |-> <<>>, stored |-> None, restoreInfo |-> None, toast |-> "none"]

PickupInit ==
  /\ schedule = InitialSchedule
  /\ pk = [c \in PickupClients |-> FreshPickup]
  /\ confirms = 0
  /\ reserved = [d \in Days |-> [t \in Times |-> 0]]

notPickupVars == <<addVars, toastVars, cartVars, loginVars>>

\* the loader replaces the screen while there are neither slots nor a selected slot
ScreenShown(c) ==
  /\ pk[c].pc # "left"
  /\ Len(pk[c].availableSlots) > 0 \/ pk[c].selectedSlot # None

\* sorted.find(s => s.time === restoreInfo.time)
RECURSIVE FindSlot(_, _)
FindSlot(sorted, time) ==
  IF sorted = <<>> THEN None
  ELSE IF Head(sorted).time = time THEN Some(Head(sorted))
       ELSE FindSlot(Tail(sorted), time)

\* a fetch of the slot effect answers, for the day it was started for: the sorted
\* slots are shown and the stored selection of that day, if any, is restored, or on
\* an error nothing happens; fetches pending for one day answer as one
FetchAnswers(c, d, ok) ==
  /\ pk[c].pc # "left"
  /\ d \in pk[c].pending
  /\ LET sorted == SortSlots(schedule[d])
         restores == ok /\ pk[c].restoreInfo # None /\ pk[c].restoreInfo[1][1] = d
         match == IF restores THEN FindSlot(sorted, pk[c].restoreInfo[1][2]) ELSE None
     IN pk' = [pk EXCEPT ![c] =
                 [@ EXCEPT !.pending = @ \ {d},
                           !.availableSlots = IF ok THEN sorted ELSE @,
                           !.selectedSlot = IF match # None THEN match ELSE @,
                           !.restoreInfo = IF restores THEN None ELSE @,
                           !.failed = IF ok THEN @ ELSE TRUE]]
  /\ UNCHANGED <<schedule, confirms, reserved>>
  /\ UNCHANGED notPickupVars

\* PickUpTime.onDatePress; a changed selectedDate runs the slot effect
onDatePress(c, d) ==
  /\ ScreenShown(c)
  /\ pk' = [pk EXCEPT ![c] =
              [@ EXCEPT !.selectedDate = d,
                        !.selectedSlot = None,
                        !.pending = IF d # pk[c].selectedDate THEN @ \cup {d} ELSE @]]
  /\ UNCHANGED <<schedule, confirms, reserved>>
  /\ UNCHANGED notPickupVars

\* a slot of the grid is pressed (disabled at capacity 0)
SelectSlot(c, k) ==
  /\ pk[c].pc # "left"
  /\ k \in 1..Len(pk[c].availableSlots)
  /\ pk[c].availableSlots[k].capacity # Some(0)
  /\ pk[c].selectedSlot # Some(pk[c].availableSlots[k])
  /\ pk' = [pk EXCEPT ![c].selectedSlot = Some(pk[c].availableSlots[k])]
  /\ UNCHANGED <<schedule, confirms, reserved>>
  /\ UNCHANGED notPickupVars

\* PickUpTime.confirmSelection up to its fetch, with this render's selectedSlot and
\* selectedDate
confirmSelection(c) ==
  /\ ScreenShown(c)
  /\ pk[c].pc = "idle"
  /\ confirms < MaxConfirms
  /\ confirms' = confirms + 1
  /\ pk' = [pk EXCEPT ![c] =
              IF pk[c].selectedSlot = None
              THEN [@ EXCEPT !.toast = "Select a time slot"]
              ELSE IF pk[c].selectedSlot[1].capacity = Some(0)
              THEN [@ EXCEPT !.toast = "That slot is not available"]
              ELSE [@ EXCEPT !.pc = "fetch", !.slot = pk[c].selectedSlot,
                             !.date = pk[c].selectedDate, !.toast = "none"]]
  /\ UNCHANGED <<schedule, reserved>>
  /\ UNCHANGED notPickupVars

\* confirmSelection: the current schedule is fetched
ConfirmFetch(c, ok) ==
  /\ pk[c].pc = "fetch"
  /\ pk' = [pk EXCEPT ![c] =
              IF ok
              THEN [@ EXCEPT !.pc = "update", !.sched = schedule[pk[c].date]]
              ELSE [@ EXCEPT !.pc = "idle",
                             !.toast = "Could not update slot availability"]]
  /\ UNCHANGED <<schedule, confirms, reserved>>
  /\ UNCHANGED notPickupVars

\* confirmSelection: the updated schedule is written, then selectedPickupTime is
\* stored and the screen left for the Cart
ConfirmUpdate(c, ok) ==
  /\ pk[c].pc = "update"
  /\ IF ok
     THEN /\ schedule' = [schedule EXCEPT ![pk[c].date] =
                            UpdatedHours(pk[c].sched, pk[c].slot[1])]
          /\ pk' = [pk EXCEPT ![c] =
                      [@ EXCEPT !.pc = "left", !.toast = "success",
                                !.stored = Some(<<pk[c].date, pk[c].slot[1].time>>)]]
          /\ reserved' = [reserved EXCEPT ![pk[c].date][pk[c].slot[1].time] = @ + 1]
     ELSE /\ pk' = [pk EXCEPT ![c] =
                      [@ EXCEPT !.pc = "idle", !.toast = "Failed to reserve spot."]]
          /\ UNCHANGED <<schedule, reserved>>
  /\ UNCHANGED confirms
  /\ UNCHANGED notPickupVars

\* The screen is opened again from the Cart: fresh state, the slot fetch started;
\* the restore effect's read of selectedPickupTime completes before the slot effect
\* runs (restoreInfo set) or after it (the fetch sees null).
PickupOpen(c) ==
  /\ pk[c].pc = "left"
  /\ \E r \in {None, pk[c].stored} :
       pk' = [pk EXCEPT ![c] =
                [FreshPickup EXCEPT !.stored = pk[c].stored, !.restoreInfo = r]]
  /\ UNCHANGED <<schedule, confirms, reserved>>
  /\ UNCHANGED notPickupVars

\* reserving slots of the day shown first, from several devices
PickupNext ==
  \/ \E c \in PickupClients : PickupOpen(c)
  \/ \E c \in PickupClients, d \in Days, ok \in BOOLEAN : FetchAnswers(c, d, ok)
  \/ \E c \in PickupClients, k \in 1..Cardinality(Times) : SelectSlot(c, k)
  \/ \E c \in PickupClients : confirmSelection(c)
  \/ \E c \in PickupClients, ok \in BOOLEAN : ConfirmFetch(c, ok)
  \/ \E c \in PickupClients, ok \in BOOLEAN : ConfirmUpdate(c, ok)

\* browsing the days: date presses and the answers of the fetches they start
SlotsNext ==
  \/ \E c \in PickupClients, d \in Days, ok \in BOOLEAN : FetchAnswers(c, d, ok)
  \/ \E c \in PickupClients, d \in Days : onDatePress(c, d)
  \/ \E c \in PickupClients, k \in 1..Cardinality(Times) : SelectSlot(c, k)

\* ------------------------------------------------------------ specifications
Init == AddInit /\ ToastInit /\ CartInit /\ LoginInit /\ PickupInit

SpecAdd == Init /\ [][AddNext]_vars

SpecToast == Init /\ [][ToastNext]_vars

SpecCart == Init /\ [][CartNext]_vars

SpecCheckout == Init /\ [][CheckoutNext]_vars

SpecLogin == Init /\ [][LoginNext]_vars

SpecDoublePress == Init /\ [][DoublePressNext]_vars

SpecPickup == Init /\ [][PickupNext]_vars

SpecSlots == Init /\ [][SlotsNext]_vars

\* ------------------------------------------------------------ claims on the add-to-cart handlers
AllIdle == \A i \in AddProcs : op[i].pc = "idle"

\* C1: the cart stored under 'cart' holds at most one line per product id, and a
\* handler that read a cart already holding the product writes back a cart with that
\* one line raised by the added amount, never a second line for it.
C1_OneLinePerProduct ==
  /\ NoDuplicateLines(ParseCart(storedCart))
  /\ \A i \in AddProcs :
       InFlight(op[i]) =>
         LET new == HandlerResult(op[i]) IN
         \A p \in Products :
           (CountLines(op[i].snap, p) = 1 /\ Qty(AddedLines(op[i]), p) > 0) =>
             /\ CountLines(new, p) = 1
             /\ Qty(new, p) = Qty(op[i].snap, p) + Qty(AddedLines(op[i]), p)

\* two completed adds of one product, one after the other, left one line of quantity >= 2
C1_Witness ==
  /\ AllIdle /\ noOverlap
  /\ \E p \in Products :
       /\ CountLines(ParseCart(storedCart), p) = 1
       /\ Qty(ParseCart(storedCart), p) >= 2

\* C2: every add-to-cart invocation that ended on a storage error has shown a
\* notification to the user.
C2_EveryErrorNotified ==
  \A i \in AddProcs : op[i].outcome = "error" => op[i].notified

\* C9: a press that completed with no other write in between left the stored quantity
\* of its product at the quantity it read plus the selected amount (1 for a card,
\* the selector's quantity >= 1 on ProductDetails).
C9_PressAddsSelectedAmount ==
  /\ quantity >= 1
  /\ \A i \in AddProcs :
       (op[i].pc = "idle" /\ op[i].outcome = "ok" /\ op[i].clean
          /\ op[i].kind # "reorder") =>
         op[i].after = op[i].base + op[i].amt

\* C10 as stated: once every add has completed, in any interleaving, the stored
\* quantity of each product is the sum of the amounts added.
C10_NoAddLost ==
  AllIdle => \A p \in Products : Qty(ParseCart(storedCart), p) = expect[p]

\* C10 amended: the same, for adds of which none wrote while another was between its
\* read and its write.
C10_NoAddLostWithoutOverlap ==
  (noOverlap /\ \A i \in AddProcs : ~InFlight(op[i])) =>
    \A p \in Products : Qty(ParseCart(storedCart), p) = expect[p]

\* two invocations completed for the same product without overlapping
C10_Witness ==
  /\ noOverlap /\ AllIdle
  /\ \A i \in AddProcs : op[i].outcome = "ok" /\ op[i].prod = "p2"
  /\ expect["p2"] >= 2
  /\ Qty(ParseCart(storedCart), "p2") = expect["p2"]

\* ------------------------------------------------------------ claims on the toast dispatchers
UpTo(n) == [k \in 1..n |-> k]

\* C7: while a container is mounted every call reached the handler at once (nothing
\* waits in the queue), and every call is delivered exactly once in call order: the
\* delivered toasts followed by the queued ones are the calls in order.
C7_ToastsDeliveredInOrder ==
  /\ hookMounted # {} => toastQueue = <<>>
  /\ managerMounted => managerQueue = <<>>
  /\ hookDelivered \o toastQueue = UpTo(hookCalls)
  /\ managerDelivered \o managerQueue = UpTo(managerCalls)


\* ------------------------------------------------------------ claims on the Cart screen
\* the rows of orders a press inserted, and the rows of order_items of an order
RowsOfPress(b) == SelectSeq(orders, LAMBDA r : r.barcode = b)

ItemsOfOrder(id) == SelectSeq(order_items, LAMBDA r : r.order_id = id)

\* what handleCheckout and placeOrder require of a press
AllPre(pre) ==
  /\ Len(pre.cart) > 0
  /\ pre.user # None
  /\ pre.location # None
  /\ pre.payment # None

\* C3: the step on which placeOrder fails after its insert into orders (the
\* availability check, the order_items insert) ends the call with an error toast and
\* changes neither orders nor order_items nor the cart state nor the stored 'cart'
\* and 'cartLocationId'; the call issues nothing further, and its order row stays as
\* inserted, once, without order_items.
C3_FailureAfterInsertChangesNothing ==
  /\ [][\A i \in CheckoutProcs :
          (ck[i].pc \in {"verify", "items"} /\ ck'[i].pc = "idle") =>
            /\ ck'[i].toast = "error"
            /\ orders' = orders
            /\ order_items' = order_items
            /\ cart' = cart
            /\ storedCart' = storedCart
            /\ cartLocationId' = cartLocationId]_vars
  /\ [](\A i \in CheckoutProcs :
          ck[i].result \in {"unavailable", "itemsfail"} =>
            /\ ck[i].pc = "idle"
            /\ RowsOfPress(ck[i].barcode) = << OrderRow(ck[i].orderId, ck[i]) >>
            /\ ItemsOfOrder(ck[i].orderId) = <<>>)

\* a checkout failed on the availability check: its order row is there, the cart is kept
C3_Witness ==
  \E i \in CheckoutProcs :
    /\ ck[i].result = "unavailable"
    /\ Len(RowsOfPress(ck[i].barcode)) = 1
    /\ Len(cart) > 0
    /\ ParseCart(storedCart) = cart

C5_SuccessfulOrderIsComplete ==
  /\ [](\A i \in CheckoutProcs :
          ck[i].result = "ok" =>
            LET pre == pressPre[ck[i].barcode]
                rows == RowsOfPress(ck[i].barcode)
            IN /\ Len(rows) = 1
               /\ rows[1].status = "Pending"
               /\ rows[1].payment_id = pre.payment
               /\ rows[1].location_id = pre.location
               /\ rows[1].pickup_time = pre.pickup
               /\ Len(ItemsOfOrder(rows[1].id)) = Len(pre.cart)
               /\ \A j \in 1..Len(pre.cart) :
                    ItemsOfOrder(rows[1].id)[j] =
                      [order_id |-> rows[1].id, product_id |-> pre.cart[j].id,
                       quantity |-> pre.cart[j].quantity,
                       unit_price |-> pre.cart[j].price])
  /\ [][\A i \in CheckoutProcs :
          (ck[i].pc = "clear" /\ ck'[i].pc = "idle") =>
            /\ ck'[i].result = "ok"
            /\ cart' = <<>>
            /\ storedCart' = None
            /\ cartLocationId' = None]_vars

\* an order of two lines, one of quantity 2, was placed and the cart is gone
C5_Witness ==
  \E i \in CheckoutProcs :
    /\ ck[i].result = "ok"
    /\ Len(pressPre[ck[i].barcode].cart) = 2
    /\ \E j \in 1..2 : pressPre[ck[i].barcode].cart[j].quantity = 2
    /\ Len(order_items) = 2
    /\ cart = <<>> /\ storedCart = None /\ cartLocationId = None

\* C6: when the Cart screen opens on a stored cart whose units were all added with a
\* location selected, the stored cart is cleared exactly if it is non-empty and holds
\* a unit added at another location than the one now selected.
C6_ClearedIffLocationChanged ==
  [][(~cartMounted /\ cartMounted' /\ addedAtExact
        /\ \A p \in Products : None \notin addedAt[p]) =>
       LET saved == ParseCart(storedCart)
           elsewhere == \E p \in Products :
                          /\ CountLines(saved, p) > 0
                          /\ \E l \in addedAt[p] : l # selectedLocation
       IN (storedCart' # storedCart) <=> (Len(saved) > 0 /\ elsewhere)]_vars

\* ------------------------------------------------------------ claims on the Login screen
\* C8: once the listener has handled the session of a sign-in, navigation has been
\* reset away from Login: to EmployeeView for role 'employee', to SelectLocation for
\* any other role.
C8_ListenerNavigatesAfterSignIn ==
  listener.pc = "done" =>
    /\ route # "Login"
    /\ listener.role = "employee" => route = "EmployeeView"
    /\ listener.role \in Roles \ {"employee"} => route = "SelectLocation"

\* C11: of two presses of 'Proceed to Checkout' on the same cart, the second made
\* while the first one's call is in flight, at most one inserts an order row.
C11_OneOrderPerCart ==
  \A b \in 1..checkouts :
    pressPre[b].repeatOf # 0 =>
      ~(RowsOfPress(b) # <<>> /\ RowsOfPress(pressPre[b].repeatOf) # <<>>)

\* ------------------------------------------------------------ claims on the PickUpTime screen
\* C12: for every slot that started with a finite capacity, the confirmSelection
\* calls that succeeded for it number at most that capacity.
C12_AtMostCapacitySucceed ==
  \A d \in Days : \A k \in 1..Len(InitialSchedule[d]) :
    InitialSchedule[d][k].capacity # None =>
      reserved[d][InitialSchedule[d][k].time] <= InitialSchedule[d][k].capacity[1]

\* the written hours against the fetched ones: same slots in the same order, the
\* slots at the selected time lowered by 1 if finite and positive, every other
\* slot as fetched
WriteFrame(fetched, written, time) ==
  /\ Len(written) = Len(fetched)
  /\ \A k \in 1..Len(fetched) :
       /\ written[k].time = fetched[k].time
       /\ IF fetched[k].time = time /\ fetched[k].capacity # None
          THEN /\ written[k].capacity # None
               /\ written[k].capacity[1] >= 0
               /\ written[k].capacity[1] =
                    IF fetched[k].capacity[1] > 0 THEN fetched[k].capacity[1] - 1
                    ELSE fetched[k].capacity[1]
          ELSE written[k].capacity = fetched[k].capacity

\* the step on which a confirmSelection call succeeds
ConfirmSucceeds(c) == pk[c].pc = "update" /\ pk'[c].toast = "success"

\* no stored capacity of the row is raised, none turns from or to null
CapacityNotRaised(old, new) ==
  /\ Len(new) = Len(old)
  /\ \A k \in 1..Len(old) :
       /\ (new[k].capacity = None) <=> (old[k].capacity = None)
       /\ new[k].capacity # None => new[k].capacity[1] <= old[k].capacity[1]

\* C13 amended: a successful confirmSelection writes the hours it fetched with only
\* the slots at the selected time changed, lowered by exactly 1 when finite and
\* positive; null capacities and the other slots are written as fetched, no written
\* capacity is negative or above the fetched one, and the rows of the other days are
\* not written.
C13_WriteDiffersFromFetchedInSelectedSlot ==
  [][\A c \in PickupClients :
       ConfirmSucceeds(c) =>
         /\ WriteFrame(pk[c].sched, schedule'[pk[c].date], pk[c].slot[1].time)
         /\ \A d \in Days \ {pk[c].date} : schedule'[d] = schedule[d]]_vars

\* C13 as stated: the same, and no capacity stored in the backend ever increases.
C13_WriteFrameAndNoCapacityIncrease ==
  /\ [][\A c \in PickupClients :
          ConfirmSucceeds(c) =>
            WriteFrame(pk[c].sched, schedule'[pk[c].date], pk[c].slot[1].time)]_vars
  /\ [][\A d \in Days : CapacityNotRaised(schedule[d], schedule'[d])]_vars

\* a call succeeded for the 09:00 slot of day 1: its capacity is one lower, the
\* unlimited slot and the 11:00 slot are as they were
C13_Witness ==
  /\ \E c \in PickupClients :
       pk[c].toast = "success" /\ pk[c].stored = Some(<<1, "09:00">>)
  /\ schedule[1][1] = Slot("09:00", Some(MaxCapacity - 1))
  /\ schedule[1][2] = Slot("10:00", None)
  /\ schedule[1][3] = InitialSchedule[1][3]

\* C14: on a screen with no fetch in flight and none failed, the slots shown are the
\* sorted slots of the selected date.
C14_SlotsOfSelectedDate ==
  \A c \in PickupClients :
    (pk[c].pending = {} /\ ~pk[c].failed) =>
      pk[c].availableSlots = SortSlots(schedule[pk[c].selectedDate])

====
